---- MODULE Spec2Model ----
(***************************************************************************)
(* A model of queue.c: a queue of strings kept as a singly linked list,    *)
(* with head/tail insertion, head removal, reversal and merge sort.        *)
(*                                                                         *)
(* The heap is modelled explicitly.  There are three kinds of blocks:      *)
(* queue handles (queue_t), list elements (list_ele_t) and payload         *)
(* buffers (char[]).  A pointer is a block number, NULL is 0, and the      *)
(* content of a block that was never written, or that was freed, is        *)
(* UNINIT.  malloc returns the lowest free block of the kind asked for, or *)
(* NULL when it fails (by choice of the environment, or because the pool   *)
(* is exhausted).                                                          *)
(*                                                                         *)
(* Every function of queue.c is an operator from a heap record to a heap   *)
(* record extended with the call's results; the actions apply them to the  *)
(* current heap.  A C string is a sequence of bytes ending with 0.         *)
(***************************************************************************)
EXTENDS Integers, Sequences, FiniteSets, TLC

\* ------------------------------------------------------------- bounds ----
\* Number of list_ele_t blocks (and of payload buffers) malloc can hand out.
MaxNodes == 3
\* Largest buffer capacity a caller passes to q_remove_head.
MaxBuf == 3

\* ------------------------------------------------------ program values ---
\* The null pointer.
NULL == 0
\* Content of a pointer field that holds no defined value.
UNINIT == -1
\* The values of the C type bool.
true == 1
false == 0
\* A byte of a caller's buffer that has not been written.
JUNK == 255
\* Width used for size_t arithmetic.  The real size_t is wider; the only
\* use, bufsize - 1, wraps to a value above every capacity either way.
SizeBits == 30

\* The queue_t blocks malloc can hand out.  One handle is enough: every
\* function takes a single queue and touches only its fields and its chain.
QIds == {1}
NodeIds == 1..MaxNodes
BufIds == 1..MaxNodes

\* The strings callers insert: "", "a", "ab", "b" (bytes 1 = 'a', 2 = 'b').
Inputs == { <<0>>, <<1, 0>>, <<1, 2, 0>>, <<2, 0>> }

VARIABLES
    queue,    \* queue[q]: the fields head, tail, size of handle q
    qlive,    \* the queue handles that are allocated
    next,     \* next[n]: the field next of list element n
    value,    \* value[n]: the field value of list element n (a payload buffer)
    nlive,    \* the list elements that are allocated
    mem,      \* mem[b]: the bytes of payload buffer b
    blive,    \* the payload buffers that are allocated
    last,     \* the most recent call: its name and what it returned (and, for
              \* a successful q_remove_head, the length of the removed value;
              \* for q_free, the number of elements the queue held; for
              \* q_reverse and q_sort, the queue passed)
    sp,       \* the caller's buffer after the most recent q_remove_head
    fault     \* TRUE once a call has written outside a buffer

vars == <<queue, qlive, next, value, nlive, mem, blive, last, sp, fault>>

\* The heap as one record, the argument and result of every operation.
\* ub: the call did something the language leaves undefined (free of a block
\* that is not allocated, a read through NULL).
Cur ==
    [queue |-> queue, qlive |-> qlive, next |-> next, value |-> value,
     nlive |-> nlive, mem |-> mem, blive |-> blive, ub |-> FALSE]

\* ------------------------------------------------------------ helpers ----
Min(S) == CHOOSE x \in S : \A y \in S : x <= y

Max(S) == CHOOSE x \in S : \A y \in S : x >= y

\* malloc: the lowest free block of the pool, NULL on failure.
malloc(pool, live, ok) ==
    IF ok /\ pool \ live # {} THEN Min(pool \ live) ELSE NULL

\* A queue_t whose fields hold no defined value.
NoQueue == [head |-> UNINIT, tail |-> UNINIT, size |-> UNINIT]

\* free of a list element / of a payload buffer: the block leaves the live
\* set and its content becomes indeterminate.
free_node(h, n) ==
    IF n \notin h.nlive THEN [h EXCEPT !.ub = TRUE]
    ELSE [h EXCEPT !.nlive = @ \ {n}, !.next[n] = UNINIT, !.value[n] = UNINIT]

free_buf(h, b) ==
    IF b \notin h.blive THEN [h EXCEPT !.ub = TRUE]
    ELSE [h EXCEPT !.blive = @ \ {b}, !.mem[b] = <<>>]

free_queue(h, q) ==
    IF q \notin h.qlive THEN [h EXCEPT !.ub = TRUE]
    ELSE [h EXCEPT !.qlive = @ \ {q}, !.queue[q] = NoQueue]

\* strlen: the number of bytes before the first 0.
strlen(s) == (CHOOSE i \in 1..Len(s) : s[i] = 0 /\ \A j \in 1..(i - 1) : s[j] # 0) - 1

\* memcpy of the first n bytes of src over the first n bytes of dst.
memcpy(dst, src, n) ==
    [i \in 1..Len(dst) |-> IF i <= n THEN src[i] ELSE dst[i]]

\* strcmp: the difference of the first pair of bytes that differ, 0 if none.
RECURSIVE strcmp_from(_, _, _)
strcmp_from(a, b, i) ==
    IF a[i] # b[i] THEN a[i] - b[i]
    ELSE IF a[i] = 0 THEN 0
    ELSE strcmp_from(a, b, i + 1)

strcmp(a, b) == strcmp_from(a, b, 1)

\* strncpy(dst, src, n) into a buffer of capacity Len(dst), n <= Len(dst):
\* the bytes of src up to its terminator, then zeros, n bytes in all.
strncpy(dst, src, n) ==
    [i \in 1..Len(dst) |->
        IF i > n THEN dst[i]
        ELSE IF i <= strlen(src) THEN src[i]
        ELSE 0]

\* The value of the size_t expression bufsize - 1.
SizeMinus1(bufsize) == (bufsize - 1) % (2 ^ SizeBits)

\* -------------------------------------------------------------- q_new ----
q_new(h, ok) ==
    LET q == malloc(QIds, h.qlive, ok) IN
    IF q = NULL THEN [heap |-> h, ret |-> NULL]
    ELSE [heap |-> [h EXCEPT !.qlive = @ \cup {q},
                             !.queue[q] = [head |-> NULL, tail |-> NULL, size |-> 0]],
          ret |-> q]

\* ------------------------------------------------------------- q_free ----
RECURSIVE q_free_loop(_, _)
q_free_loop(h, q) ==
    IF h.queue[q].head = NULL THEN h
    ELSE LET tmp == h.queue[q].head
             h1 == [h EXCEPT !.queue[q].head = h.next[tmp]]
             h2 == free_buf(h1, h1.value[tmp])
             h3 == free_node(h2, tmp)
             h4 == [h3 EXCEPT !.queue[q].size = @ - 1]
         IN q_free_loop(h4, q)

\* q_free releasing the handle without walking the chain.
q_free_handle_only(h, q) ==
    IF q = NULL THEN h ELSE free_queue(h, q)

q_free(h, q) ==
    IF q = NULL THEN h
    ELSE free_queue(q_free_loop(h, q), q)

\* ------------------------------------------------------ q_insert_head ----
\* What q_insert_head does when the payload malloc fails (lines 62-65).
insert_head_nomem(h, newh) == free_node(h, newh)

q_insert_head(h, q, s, ok1, ok2) ==
    IF q = NULL THEN [heap |-> h, ret |-> false]
    ELSE
    LET newh == malloc(NodeIds, h.nlive, ok1) IN
    IF newh = NULL THEN [heap |-> h, ret |-> false]
    ELSE
    LET h1 == [h EXCEPT !.nlive = @ \cup {newh}]
        len == strlen(s) + 1
        buf == malloc(BufIds, h1.blive, ok2)
        h2 == [h1 EXCEPT !.value[newh] = buf]
    IN
    IF buf = NULL THEN [heap |-> insert_head_nomem(h2, newh), ret |-> false]
    ELSE
    LET h3 == [h2 EXCEPT !.blive = @ \cup {buf},
                         !.mem[buf] = [i \in 1..len |-> JUNK]]
        h4 == [h3 EXCEPT !.mem[buf] = memcpy(@, s, len - 1)]
        h5 == [h4 EXCEPT !.mem[buf][len] = 0]
        h6 == [h5 EXCEPT !.next[newh] = h5.queue[q].head]
        h7 == [h6 EXCEPT !.queue[q].head = newh, !.queue[q].size = @ + 1]
        h8 == IF h7.queue[q].tail = NULL
              THEN [h7 EXCEPT !.queue[q].tail = newh]
              ELSE h7
    IN [heap |-> h8, ret |-> true]

\* ------------------------------------------------------ q_insert_tail ----
\* The link step without the store to the old tail's next.
insert_tail_link_unlinked(h, q, newt) ==
    LET h1 == IF h.queue[q].tail = NULL
              THEN [h EXCEPT !.queue[q].tail = newt, !.queue[q].head = newt]
              ELSE [h EXCEPT !.queue[q].tail = newt]
    IN [h1 EXCEPT !.queue[q].size = @ + 1]

\* The link step of q_insert_tail (lines 104-111).
insert_tail_link(h, q, newt) ==
    LET h1 == IF h.queue[q].tail = NULL
              THEN [h EXCEPT !.queue[q].tail = newt, !.queue[q].head = newt]
              ELSE [h EXCEPT !.next[h.queue[q].tail] = newt, !.queue[q].tail = newt]
    IN [h1 EXCEPT !.queue[q].size = @ + 1]

\* Returning on a failed payload malloc without freeing the element.
insert_tail_nomem_leaks(h, newt) == h

\* What q_insert_tail does when the payload malloc fails (lines 97-100).
insert_tail_nomem(h, newt) == free_node(h, newt)

q_insert_tail(h, q, s, ok1, ok2) ==
    IF q = NULL THEN [heap |-> h, ret |-> false]
    ELSE
    LET newt == malloc(NodeIds, h.nlive, ok1) IN
    IF newt = NULL THEN [heap |-> h, ret |-> false]
    ELSE
    LET h1 == [h EXCEPT !.nlive = @ \cup {newt}]
        len == strlen(s) + 1
        buf == malloc(BufIds, h1.blive, ok2)
        h2 == [h1 EXCEPT !.value[newt] = buf, !.next[newt] = NULL]
    IN
    IF buf = NULL THEN [heap |-> insert_tail_nomem(h2, newt), ret |-> false]
    ELSE
    LET h3 == [h2 EXCEPT !.blive = @ \cup {buf},
                         !.mem[buf] = [i \in 1..len |-> JUNK]]
        h4 == [h3 EXCEPT !.mem[buf] = memcpy(@, s, len - 1)]
        h5 == [h4 EXCEPT !.mem[buf][len] = 0]
    IN [heap |-> insert_tail_link(h5, q, newt), ret |-> true]

\* ------------------------------------------------------ q_remove_head ----
\* A caller's buffer of the given capacity, not yet written.
fresh_buf(bufsize) == [i \in 1..bufsize |-> JUNK]

\* The writes without the store of the terminator (line 136).
copy_out_unterminated(payload, bufsize) ==
    LET n == SizeMinus1(bufsize) IN
    IF n >= bufsize
    THEN [sp |-> fresh_buf(bufsize), fault |-> TRUE]
    ELSE [sp |-> strncpy(fresh_buf(bufsize), payload, n), fault |-> FALSE]

\* The two writes to the caller's buffer (lines 135-136), given the payload.
\* The result holds the buffer afterwards and whether a write fell outside it.
copy_out(payload, bufsize) ==
    LET n == SizeMinus1(bufsize) IN
    IF n >= bufsize
    THEN [sp |-> fresh_buf(bufsize), fault |-> TRUE]
    ELSE LET b1 == strncpy(fresh_buf(bufsize), payload, n)
             b2 == [b1 EXCEPT ![n + 1] = 0]
         IN [sp |-> b2, fault |-> FALSE]

\* The unlink step without the reset of tail when the queue becomes empty.
remove_head_unlink_keeps_tail(h, q) ==
    LET tmp == h.queue[q].head
        h1 == [h EXCEPT !.queue[q].head = h.next[tmp]]
    IN [h1 EXCEPT !.queue[q].size = @ - 1]

\* The unlink step without the decrement of size.
remove_head_unlink_keeps_size(h, q) ==
    LET tmp == h.queue[q].head
        h1 == [h EXCEPT !.queue[q].head = h.next[tmp]]
    IN IF h1.queue[q].size = 0 THEN [h1 EXCEPT !.queue[q].tail = NULL] ELSE h1

\* The unlink step of q_remove_head (lines 129-134).
remove_head_unlink(h, q) ==
    LET tmp == h.queue[q].head
        h1 == [h EXCEPT !.queue[q].head = h.next[tmp]]
        h2 == [h1 EXCEPT !.queue[q].size = @ - 1]
    IN IF h2.queue[q].size = 0 THEN [h2 EXCEPT !.queue[q].tail = NULL] ELSE h2

\* The two frees in the other order: tmp->value is read from a freed block.
remove_head_release_node_first(h, tmp) ==
    LET h1 == free_node(h, tmp) IN free_buf(h1, h1.value[tmp])

\* The two frees of q_remove_head (lines 137-138).
remove_head_release(h, tmp) ==
    free_node(free_buf(h, h.value[tmp]), tmp)

\* The test without the check of sp.
remove_head_fails_unchecked_sp(h, q, spnull) ==
    q = NULL \/ h.queue[q].head = NULL

\* The test that makes q_remove_head return false (line 126).
\* spnull: the caller passes sp == NULL.
remove_head_fails(h, q, spnull) ==
    q = NULL \/ h.queue[q].head = NULL \/ spnull

q_remove_head(h, q, spnull, bufsize) ==
    IF remove_head_fails(h, q, spnull)
    THEN [heap |-> h, ret |-> false, sp |-> <<>>, fault |-> FALSE]
    ELSE
    LET tmp == h.queue[q].head
        h1 == remove_head_unlink(h, q)
        out == copy_out(h1.mem[h1.value[tmp]], bufsize)
    IN
    IF out.fault
    THEN [heap |-> h1, ret |-> UNINIT, sp |-> out.sp, fault |-> TRUE]
    ELSE [heap |-> remove_head_release(h1, tmp), ret |-> true,
          sp |-> out.sp, fault |-> FALSE]

\* ------------------------------------------------------------- q_size ----
q_size(h, q) == IF q # NULL THEN h.queue[q].size ELSE 0

\* ---------------------------------------------------------- q_reverse ----
\* The loop stopping at the last element instead of after it.
RECURSIVE reverse_loop_stops_early(_, _, _)
reverse_loop_stops_early(nxt, l, r) ==
    IF r = NULL \/ nxt[r] = NULL THEN [next |-> nxt, l |-> l]
    ELSE LET tmp == nxt[r]
         IN reverse_loop_stops_early([nxt EXCEPT ![r] = l], r, tmp)

\* The loop of q_reverse (lines 165-170): the links and l when r is NULL.
RECURSIVE reverse_loop(_, _, _)
reverse_loop(nxt, l, r) ==
    IF r = NULL THEN [next |-> nxt, l |-> l]
    ELSE LET tmp == nxt[r]
         IN reverse_loop([nxt EXCEPT ![r] = l], r, tmp)

\* q_reverse without the assignment to tail (line 164).
q_reverse_keeps_tail(h, q) ==
    IF q = NULL THEN h
    ELSE
    LET res == reverse_loop(h.next, NULL, h.queue[q].head)
    IN [h EXCEPT !.next = res.next, !.queue[q].head = res.l]

q_reverse(h, q) ==
    IF q = NULL THEN h
    ELSE
    LET r == h.queue[q].head
        h1 == [h EXCEPT !.queue[q].tail = h.queue[q].head]
        res == reverse_loop(h1.next, NULL, r)
    IN [h1 EXCEPT !.next = res.next, !.queue[q].head = res.l]

\* --------------------------------------------------------- merge_sort ----
\* A list_ele_t ** is a place that holds a pointer: the variable the caller
\* passed (q->head, or the local right), or the field next of an element.
Root == [node |-> NULL]
NextOf(n) == [node |-> n]

\* A list under sort: the links, and the content of the caller's variable.
Deref(st, place) == IF place.node = NULL THEN st.root ELSE st.next[place.node]

Store(st, place, p) ==
    IF place.node = NULL THEN [st EXCEPT !.root = p]
    ELSE [st EXCEPT !.next[place.node] = p]

\* The walk with the fast pointer started one element further on.
RECURSIVE find_half_walk(_, _, _)
find_half_walk(nxt, left, right) ==
    IF right # NULL /\ nxt[right] # NULL
    THEN find_half_walk(nxt, nxt[left], nxt[nxt[right]])
    ELSE left

find_half_fast_ahead(nxt, left, right) ==
    find_half_walk(nxt, left, IF right = NULL THEN NULL ELSE nxt[right])

\* The slow/fast walk (lines 220-223): the final value of left.
RECURSIVE find_half(_, _, _)
find_half(nxt, left, right) ==
    IF right # NULL /\ nxt[right] # NULL
    THEN find_half(nxt, nxt[left], nxt[nxt[right]])
    ELSE left

\* The comparison that takes left on a tie.
take_left_on_ties(h, left, right) ==
    strcmp(h.mem[h.value[left]], h.mem[h.value[right]]) <= 0

\* The comparison with its sense inverted.
take_left_inverted(h, left, right) ==
    strcmp(h.mem[h.value[left]], h.mem[h.value[right]]) > 0

\* The comparison of the first bytes only.
take_left_first_byte(h, left, right) ==
    h.mem[h.value[left]][1] < h.mem[h.value[right]][1]

\* Which front element the merge emits (line 234): TRUE for left.
take_left(h, left, right) ==
    strcmp(h.mem[h.value[left]], h.mem[h.value[right]]) < 0

\* The final store taking left whether or not it is NULL.
merge_rest_left_only(left, right) == left

\* What the merge appends once one side is exhausted (line 243).
merge_rest(left, right) == IF left # NULL THEN left ELSE right

\* The merge loop and the final store (lines 233-243).
RECURSIVE merge_loop(_, _, _, _, _)
merge_loop(h, st, head, left, right) ==
    IF left # NULL /\ right # NULL
    THEN IF take_left(h, left, right)
         THEN LET st1 == Store(st, head, left)
              IN merge_loop(h, st1, NextOf(Deref(st1, head)), st1.next[left], right)
         ELSE LET st1 == Store(st, head, right)
              IN merge_loop(h, st1, NextOf(Deref(st1, head)), left, st1.next[right])
    ELSE Store(st, head, merge_rest(left, right))

\* The number of iterations of the merge loop (lines 233-242).
RECURSIVE merge_loop_steps(_, _, _, _, _)
merge_loop_steps(h, st, head, left, right) ==
    IF left # NULL /\ right # NULL
    THEN IF take_left(h, left, right)
         THEN LET st1 == Store(st, head, left)
              IN 1 + merge_loop_steps(h, st1, NextOf(Deref(st1, head)),
                                      st1.next[left], right)
         ELSE LET st1 == Store(st, head, right)
              IN 1 + merge_loop_steps(h, st1, NextOf(Deref(st1, head)),
                                      left, st1.next[right])
    ELSE 0

\* merge_sort(&p) where p holds first: the links afterwards, and p as root.
RECURSIVE merge_sort(_, _, _)
merge_sort(h, nxt, first) ==
    IF first = NULL \/ nxt[first] = NULL THEN [next |-> nxt, root |-> first]
    ELSE
    LET left == find_half(nxt, first, nxt[first])
        right == nxt[left]
        nxt1 == [nxt EXCEPT ![left] = NULL]
        a == merge_sort(h, nxt1, first)
        b == merge_sort(h, a.next, right)
    IN merge_loop(h, [next |-> b.next, root |-> a.root], Root, a.root, b.root)

\* --------------------------------------------------------- quick_sort ----
\* swap_str(&a->value, &b->value): the two elements exchange their payloads.
swap_str(val, a, b) == [val EXCEPT ![a] = val[b], ![b] = val[a]]

\* The test with its sense inverted.
below_pivot_inverted(h, val, r, lst) ==
    strcmp(h.mem[val[r]], h.mem[val[lst]]) > 0

\* The test of the partition loop (line 197).
below_pivot(h, val, r, lst) ==
    strcmp(h.mem[val[r]], h.mem[val[lst]]) < 0

\* The partition loop (lines 196-203): the payloads, l and prev at its end.
RECURSIVE partition_loop(_, _, _, _, _, _)
partition_loop(h, val, l, r, prev, lst) ==
    IF r = lst THEN [value |-> val, l |-> l, prev |-> prev]
    ELSE IF below_pivot(h, val, r, lst)
         THEN partition_loop(h, swap_str(val, r, l), h.next[l], h.next[r], l, lst)
         ELSE partition_loop(h, val, l, h.next[r], prev, lst)

\* quick_sort(first, last): the field value of every element afterwards
\* (the parameter last is written lst).
RECURSIVE quick_sort(_, _, _, _)
quick_sort(h, val, first, lst) ==
    IF first = NULL \/ lst = NULL THEN val
    ELSE IF first = lst \/ h.next[lst] = first THEN val
    ELSE
    LET p == partition_loop(h, val, first, first, NULL, lst)
        val1 == swap_str(p.value, p.l, lst)
        val2 == quick_sort(h, val1, first, p.prev)
    IN quick_sort(h, val2, h.next[p.l], lst)

\* ------------------------------------------------------------- q_sort ----
\* q_sort without the walk: tail stays where it was before the merge.
tail_fixup_skipped(nxt, t) == t

\* The walk that moves tail to the last element (lines 262-264).
RECURSIVE tail_fixup(_, _)
tail_fixup(nxt, t) ==
    IF t # NULL /\ nxt[t] # NULL THEN tail_fixup(nxt, nxt[t]) ELSE t

\* The number of iterations of that walk.
RECURSIVE tail_fixup_steps(_, _)
tail_fixup_steps(nxt, t) ==
    IF t # NULL /\ nxt[t] # NULL THEN 1 + tail_fixup_steps(nxt, nxt[t]) ELSE 0

\* q_sort as built with the other branch of line 257 (lines 259-260).
q_sort_else(h, q) ==
    IF q = NULL THEN h
    ELSE
    LET h1 == [h EXCEPT !.value =
                 quick_sort(h, h.value, h.queue[q].head, h.queue[q].tail)]
    IN [h1 EXCEPT !.queue[q].tail = tail_fixup(h1.next, h1.queue[q].tail)]

\* q_sort taking the branch that swaps payloads.
q_sort_swaps_payloads(h, q) == q_sort_else(h, q)

\* q_sort without the test of q (lines 253-255): q->head is read at once.
q_sort_unchecked(h, q) ==
    IF q = NULL THEN [h EXCEPT !.ub = TRUE]
    ELSE
    LET m == merge_sort(h, h.next, h.queue[q].head)
        h1 == [h EXCEPT !.next = m.next, !.queue[q].head = m.root]
    IN [h1 EXCEPT !.queue[q].tail = tail_fixup(h1.next, h1.queue[q].tail)]

q_sort(h, q) ==
    IF q = NULL THEN h
    ELSE
    LET m == merge_sort(h, h.next, h.queue[q].head)
        h1 == [h EXCEPT !.next = m.next, !.queue[q].head = m.root]
    IN [h1 EXCEPT !.queue[q].tail = tail_fixup(h1.next, h1.queue[q].tail)]

\* ------------------------------------------------------------ actions ----
\* A queue argument: a live handle or NULL.
QArgs == qlive \cup {NULL}

Install(h) ==
    /\ queue' = h.queue
    /\ qlive' = h.qlive
    /\ next' = h.next
    /\ value' = h.value
    /\ nlive' = h.nlive
    /\ mem' = h.mem
    /\ blive' = h.blive

Init ==
    /\ queue = [q \in QIds |-> NoQueue]
    /\ qlive = {}
    /\ next = [n \in NodeIds |-> UNINIT]
    /\ value = [n \in NodeIds |-> UNINIT]
    /\ nlive = {}
    /\ mem = [b \in BufIds |-> <<>>]
    /\ blive = {}
    /\ last = [op |-> "none", ret |-> 0]
    /\ sp = <<>>
    /\ fault = FALSE

New ==
    /\ ~fault
    /\ \E ok \in BOOLEAN :
         LET r == q_new(Cur, ok) IN
         /\ Install(r.heap)
         /\ last' = [op |-> "q_new", ret |-> r.ret]
    /\ sp' = <<>>
    /\ UNCHANGED fault

Free ==
    /\ ~fault
    /\ \E q \in QArgs :
         /\ Install(q_free(Cur, q))
         /\ last' = [op |-> "q_free", ret |-> 0, count |-> q_size(Cur, q)]
    /\ sp' = <<>>
    /\ UNCHANGED fault

InsertHead ==
    /\ ~fault
    /\ \E q \in QArgs, s \in Inputs, ok1 \in BOOLEAN, ok2 \in BOOLEAN :
         LET r == q_insert_head(Cur, q, s, ok1, ok2) IN
         /\ Install(r.heap)
         /\ last' = [op |-> "q_insert_head", ret |-> r.ret]
    /\ sp' = <<>>
    /\ UNCHANGED fault

InsertTail ==
    /\ ~fault
    /\ \E q \in QArgs, s \in Inputs, ok1 \in BOOLEAN, ok2 \in BOOLEAN :
         LET r == q_insert_tail(Cur, q, s, ok1, ok2) IN
         /\ Install(r.heap)
         /\ last' = [op |-> "q_insert_tail", ret |-> r.ret]
    /\ sp' = <<>>
    /\ UNCHANGED fault

RemoveHead ==
    /\ ~fault
    /\ \E q \in QArgs, spnull \in BOOLEAN, bufsize \in 0..MaxBuf :
         LET r == q_remove_head(Cur, q, spnull, bufsize) IN
         /\ Install(r.heap)
         /\ last' = IF r.ret = true
                    THEN [op |-> "q_remove_head", ret |-> r.ret,
                          len |-> strlen(mem[value[queue[q].head]])]
                    ELSE [op |-> "q_remove_head", ret |-> r.ret]
         /\ sp' = r.sp
         /\ fault' = r.fault

Size ==
    /\ ~fault
    /\ \E q \in QArgs :
         last' = [op |-> "q_size", ret |-> q_size(Cur, q)]
    /\ sp' = <<>>
    /\ UNCHANGED <<queue, qlive, next, value, nlive, mem, blive, fault>>

Reverse ==
    /\ ~fault
    /\ \E q \in QArgs :
         /\ Install(q_reverse(Cur, q))
         /\ last' = [op |-> "q_reverse", ret |-> 0, arg |-> q]
    /\ sp' = <<>>
    /\ UNCHANGED fault

Sort ==
    /\ ~fault
    /\ \E q \in QArgs :
         /\ Install(q_sort(Cur, q))
         /\ last' = [op |-> "q_sort", ret |-> 0, arg |-> q]
    /\ sp' = <<>>
    /\ UNCHANGED fault

Next ==
    \/ New
    \/ Free
    \/ InsertHead
    \/ InsertTail
    \/ RemoveHead
    \/ Size
    \/ Reverse
    \/ Sort

Spec == Init /\ [][Next]_vars

\* The program built with the other branch of line 257: q_sort calls
\* quick_sort(q->head, q->tail).  The calls that build a queue, reorder it
\* and sort it are enough to put every sequence of values, in every
\* arrangement of the payloads, before quick_sort.
SortElse ==
    /\ ~fault
    /\ \E q \in QArgs :
         /\ Install(q_sort_else(Cur, q))
         /\ last' = [op |-> "q_sort_else", ret |-> 0, arg |-> q]
    /\ sp' = <<>>
    /\ UNCHANGED fault

NextElse ==
    \/ New
    \/ InsertHead
    \/ InsertTail
    \/ Reverse
    \/ SortElse

SpecElse == Init /\ [][NextElse]_vars

\* ------------------------------------------------------- observations ----
\* The elements met from n by next links, up to the first pointer that is
\* not an element or that was met before.
RECURSIVE Walk(_, _, _)
Walk(nxt, n, seen) ==
    IF n \notin NodeIds \/ n \in seen THEN <<>>
    ELSE <<n>> \o Walk(nxt, nxt[n], seen \cup {n})

\* The pointer at which that walk stops: NULL for a chain that ends properly.
RECURSIVE WalkEnd(_, _, _)
WalkEnd(nxt, n, seen) ==
    IF n \notin NodeIds \/ n \in seen THEN n
    ELSE WalkEnd(nxt, nxt[n], seen \cup {n})

\* The chain of queue q in heap h, head first.
Chain(h, q) == Walk(h.next, h.queue[q].head, {})

ChainEnd(h, q) == WalkEnd(h.next, h.queue[q].head, {})

\* The payloads of the chain of q, head first.
ValSeq(h, q) ==
    LET c == Chain(h, q) IN [i \in 1..Len(c) |-> h.mem[h.value[c[i]]]]

Range(f) == { f[i] : i \in DOMAIN f }

\* ------------------------------------------------------------- claims ----
\* C1: after every call the elements reachable from head form an acyclic
\* chain of exactly size elements that ends with NULL; when size > 0 its
\* last element is tail and tail->next is NULL, so tail = head when size = 1.
C1_ChainShape ==
    \A q \in qlive :
        LET c == Chain(Cur, q) IN
        /\ ChainEnd(Cur, q) = NULL
        /\ Len(c) = queue[q].size
        /\ Range(c) \subseteq nlive
        /\ queue[q].size > 0 =>
             /\ queue[q].tail = c[Len(c)]
             /\ next[queue[q].tail] = NULL
        /\ queue[q].size = 1 => queue[q].tail = queue[q].head

\* A sort has just moved the element that was last to another place: tail
\* had to be moved by the walk.
C1_Witness ==
    /\ last.op = "q_sort"
    /\ \E q \in qlive :
         /\ queue[q].size >= 3
         /\ queue[q].tail # Max(Range(Chain(Cur, q)))
         /\ queue[q].head # Min(Range(Chain(Cur, q)))

\* C2: after every call, size = 0, head = NULL and tail = NULL are all true
\* or all false.
C2_EmptyIff ==
    \A q \in qlive :
        /\ (queue[q].size = 0) <=> (queue[q].head = NULL)
        /\ (queue[q].head = NULL) <=> (queue[q].tail = NULL)

\* The last element has just been removed.
C2_Witness ==
    /\ last.op = "q_remove_head"
    /\ last.ret = true
    /\ \E q \in qlive : queue[q].size = 0 /\ queue[q].tail = NULL

\* The abstract queue: a sequence of strings and the operations on it.
Rev(s) == [i \in 1..Len(s) |-> s[Len(s) + 1 - i]]

\* Byte-wise lexicographic order on strings, the terminator being least.
LexLeq(a, b) ==
    \/ a = b
    \/ \E i \in 1..Len(a) :
         /\ i <= Len(b)
         /\ \A j \in 1..(i - 1) : a[j] = b[j]
         /\ a[i] < b[i]

\* x put in its place in the ascending sequence s.
RECURSIVE InsertSorted(_, _)
InsertSorted(x, s) ==
    IF s = <<>> THEN <<x>>
    ELSE IF LexLeq(x, Head(s)) THEN <<x>> \o s
    ELSE <<Head(s)>> \o InsertSorted(x, Tail(s))

RECURSIVE AbsSort(_)
AbsSort(s) == IF s = <<>> THEN <<>> ELSE InsertSorted(Head(s), AbsSort(Tail(s)))

Count(s, x) == Cardinality({ i \in DOMAIN s : s[i] = x })

\* The string a caller reads from a buffer: its bytes up to the first 0.
HasNul(b) == \E i \in DOMAIN b : b[i] = 0

CStr(b) == [i \in 1..(strlen(b) + 1) |-> b[i]]

\* Both mallocs of an insertion succeed in the current heap.
AllocOk ==
    /\ malloc(NodeIds, nlive, TRUE) # NULL
    /\ malloc(BufIds, blive, TRUE) # NULL

\* C3: when the allocations succeed and the buffer is larger than the
\* removed value, each call changes the values read from head to tail as
\* prepend, append, drop-first, reverse and ascending sort change a
\* sequence, and a successful q_remove_head copies out exactly the first
\* value; q_insert_tail then q_remove_head on an empty queue gives back the
\* inserted string byte for byte.
C3_Refines ==
    \A q \in qlive :
        LET v == ValSeq(Cur, q) IN
        /\ \A s \in Inputs :
             AllocOk =>
               /\ ValSeq(q_insert_head(Cur, q, s, TRUE, TRUE).heap, q) = <<s>> \o v
               /\ ValSeq(q_insert_tail(Cur, q, s, TRUE, TRUE).heap, q) = Append(v, s)
        /\ \A b \in 0..MaxBuf :
             (v # <<>> /\ b > strlen(v[1])) =>
               LET r == q_remove_head(Cur, q, FALSE, b) IN
               /\ r.ret = true
               /\ ValSeq(r.heap, q) = Tail(v)
               /\ HasNul(r.sp)
               /\ CStr(r.sp) = v[1]
        /\ ValSeq(q_reverse(Cur, q), q) = Rev(v)
        /\ ValSeq(q_sort(Cur, q), q) = AbsSort(v)
        /\ \A s \in Inputs, b \in 0..MaxBuf :
             (v = <<>> /\ AllocOk /\ b > strlen(s)) =>
               LET r == q_remove_head(q_insert_tail(Cur, q, s, TRUE, TRUE).heap,
                                      q, FALSE, b) IN
               /\ r.ret = true
               /\ HasNul(r.sp)
               /\ CStr(r.sp) = s

\* "ab" has just been removed into a buffer that holds it, from a queue that
\* still holds other values.
C3_Witness ==
    /\ last.op = "q_remove_head"
    /\ last.ret = true
    /\ HasNul(sp)
    /\ CStr(sp) = <<1, 2, 0>>
    /\ \E q \in qlive : queue[q].size >= 2

\* C4: after q_sort every two adjacent elements a, b, in head-to-tail order,
\* satisfy strcmp(a.value, b.value) <= 0.
C4_SortedAfterSort ==
    \A q \in qlive :
        LET v == ValSeq(q_sort(Cur, q), q) IN
        \A i \in 1..(Len(v) - 1) : strcmp(v[i], v[i + 1]) <= 0

\* A sort has produced "a", "ab", "b" in elements that are not in the order
\* of their allocation.
C4_Witness ==
    /\ last.op = "q_sort"
    /\ \E q \in qlive :
         /\ ValSeq(Cur, q) = << <<1, 0>>, <<1, 2, 0>>, <<2, 0>> >>
         /\ Chain(Cur, q) # <<1, 2, 3>>

\* C5: q_sort leaves the multiset of the values reachable from head, and
\* size, unchanged.
C5_SortKeepsValues ==
    \A q \in qlive :
        LET h == q_sort(Cur, q)
            v == ValSeq(Cur, q)
            w == ValSeq(h, q)
        IN /\ h.queue[q].size = queue[q].size
           /\ Len(w) = Len(v)
           /\ \A x \in Range(v) \cup Range(w) : Count(w, x) = Count(v, x)

\* A sort has run on three elements, two of them holding equal values.
C5_Witness ==
    /\ last.op = "q_sort"
    /\ \E q \in qlive :
         LET v == ValSeq(Cur, q) IN
         /\ Len(v) = 3
         /\ \E x \in Range(v) : Count(v, x) = 2

\* C6: q_reverse produces the chain whose values, head to tail, are those
\* before the call in reverse order; head is the former tail and tail the
\* former head.
C6_ReverseReverses ==
    \A q \in qlive :
        LET h == q_reverse(Cur, q) IN
        /\ ValSeq(h, q) = Rev(ValSeq(Cur, q))
        /\ h.queue[q].head = queue[q].tail
        /\ h.queue[q].tail = queue[q].head

\* A reversal has run on three elements holding three different values.
C6_Witness ==
    /\ last.op = "q_reverse"
    /\ \E q \in qlive :
         LET v == ValSeq(Cur, q) IN
         /\ Len(v) = 3
         /\ Cardinality(Range(v)) = 3

\* C7: two calls of q_reverse in a row restore the order of the elements,
\* head and tail.
C7_ReverseInvolution ==
    \A q \in qlive :
        LET h == q_reverse(q_reverse(Cur, q), q) IN
        /\ Chain(h, q) = Chain(Cur, q)
        /\ h.queue[q].head = queue[q].head
        /\ h.queue[q].tail = queue[q].tail

\* A reversal has run on at least two elements, and one more changes the
\* order again.
C7_Witness ==
    /\ last.op = "q_reverse"
    /\ \E q \in qlive :
         /\ queue[q].size >= 2
         /\ Chain(q_reverse(Cur, q), q) # Chain(Cur, q)
         /\ queue[q].head > queue[q].tail

\* C8: the values, head to tail, after two calls of q_sort in a row are
\* those after one call.
C8_SortIdempotent ==
    \A q \in qlive :
        LET h == q_sort(Cur, q) IN
        ValSeq(q_sort(h, q), q) = ValSeq(h, q)

\* A sort has run on a queue that holds "a" and "ab", which agree on their
\* first byte, and a third value.
C8_Witness ==
    /\ last.op = "q_sort"
    /\ \E q \in qlive :
         LET v == ValSeq(Cur, q) IN
         /\ Len(v) = 3
         /\ {<<1, 0>>, <<1, 2, 0>>} \subseteq Range(v)

C10_InsertFailsCleanly ==
    \A q \in QArgs, s \in Inputs, ok1 \in BOOLEAN, ok2 \in BOOLEAN :
        LET newn == malloc(NodeIds, nlive, ok1)
            newb == malloc(BufIds, blive, ok2)
            rh == q_insert_head(Cur, q, s, ok1, ok2)
            rt == q_insert_tail(Cur, q, s, ok1, ok2)
        IN (q = NULL \/ newn = NULL \/ newb = NULL) =>
             /\ rh.ret = false
             /\ rh.heap = Cur
             /\ rt.ret = false
             /\ rt.heap = Cur

\* A q_insert_tail has returned false on a queue that holds an element
\* while a free element was left in the pool.
C10_Witness ==
    /\ last.op = "q_insert_tail"
    /\ last.ret = false
    /\ nlive # NodeIds
    /\ \E q \in qlive : queue[q].size >= 1

\* C11: a successful q_remove_head with capacity c >= 1 on a head value of
\* length n writes the first min(n, c - 1) bytes of the value and then a 0,
\* and returns true even when n > c - 1.
C11_Truncates ==
    \A q \in qlive, c \in 1..MaxBuf :
        queue[q].head # NULL =>
          LET v == mem[value[queue[q].head]]
              n == strlen(v)
              k == IF n < c - 1 THEN n ELSE c - 1
              r == q_remove_head(Cur, q, FALSE, c)
          IN /\ r.ret = true
             /\ ~r.fault
             /\ Len(r.sp) = c
             /\ \A i \in 1..k : r.sp[i] = v[i]
             /\ r.sp[k + 1] = 0

\* "ab" has just been removed into a buffer of capacity 2, which holds "a".
C11_Witness ==
    /\ last.op = "q_remove_head"
    /\ last.ret = true
    /\ last.len = 2
    /\ Len(sp) = 2
    /\ sp[1] = 1
    /\ sp[2] = 0

\* What one call adds to the number of elements: 1 for an insertion that
\* returned true, -1 for a removal that returned true, 0 otherwise.
Delta(call) ==
    IF call.ret # true THEN 0
    ELSE IF call.op \in {"q_insert_head", "q_insert_tail"} THEN 1
    ELSE IF call.op = "q_remove_head" THEN -1
    ELSE 0

C12_Step ==
    /\ (last'.op \in {"q_insert_head", "q_insert_tail", "q_remove_head"} /\ ~fault') =>
         \A q \in qlive : q_size(Cur', q) = q_size(Cur, q) + Delta(last')
    /\ last'.op = "q_size" =>
         /\ Cur' = Cur
         /\ last'.ret \in {0} \cup { queue[q].size : q \in qlive }

C12_State ==
    /\ \A q \in qlive, s \in Inputs :
         AllocOk =>
           /\ q_insert_head(Cur, q, s, TRUE, TRUE).ret = true
           /\ q_insert_tail(Cur, q, s, TRUE, TRUE).ret = true
    /\ q_size(Cur, NULL) = 0

\* C12: every q_insert_head and q_insert_tail whose allocations succeed
\* returns true and adds one to q_size, every q_remove_head that returns
\* true takes one away, every other call of these leaves it alone, so q_size
\* is the number of inserts minus the number of successful removals; q_size
\* of NULL is 0 and q_size changes nothing.
C12_SizeCounts == []C12_State /\ [][C12_Step]_vars

\* q_size has returned 2 for a queue that has had three insertions and one
\* removal.
C12_Witness ==
    /\ last.op = "q_size"
    /\ last.ret = 2
    /\ nlive = {2, 3}

\* C13: q_reverse and q_sort neither allocate nor free, and leave every
\* element its payload: the live elements, the live buffers, the field value
\* of every element, the bytes of every buffer and size are as before.
C13_RearrangeOnly ==
    \A q \in QArgs :
        LET hr == q_reverse(Cur, q)
            hs == q_sort(Cur, q)
        IN /\ hr.nlive = nlive /\ hs.nlive = nlive
           /\ hr.blive = blive /\ hs.blive = blive
           /\ hr.qlive = qlive /\ hs.qlive = qlive
           /\ hr.value = value /\ hs.value = value
           /\ hr.mem = mem /\ hs.mem = mem
           /\ q # NULL =>
                /\ hr.queue[q].size = queue[q].size
                /\ hs.queue[q].size = queue[q].size

\* A sort has put three elements in an order that is not the order of
\* their allocation, and each still holds the buffer allocated with it.
C13_Witness ==
    /\ last.op = "q_sort"
    /\ nlive = {1, 2, 3}
    /\ \A n \in nlive : value[n] = n
    /\ \E q \in qlive :
         /\ Chain(Cur, q) # <<1, 2, 3>>
         /\ Cardinality(Range(ValSeq(Cur, q))) = 3

\* The payload buffers of the elements of a chain.
Payloads(h, c) == { h.value[c[i]] : i \in DOMAIN c }

\* C14: q_free frees every element reachable from head, the payload of each
\* and the handle, each once, so that no block of the queue stays allocated;
\* q_free(NULL) does nothing.
C14_FreeReleasesAll ==
    \A q \in QArgs :
        LET h == q_free(Cur, q) IN
        IF q = NULL THEN h = Cur
        ELSE LET c == Chain(Cur, q) IN
             /\ ~h.ub
             /\ h.nlive = nlive \ Range(c)
             /\ h.blive = blive \ Payloads(Cur, c)
             /\ h.qlive = qlive \ {q}
             /\ Cardinality(nlive \ h.nlive) = Len(c)
             /\ Cardinality(blive \ h.blive) = Len(c)
             /\ ~fault => (h.nlive = {} /\ h.blive = {})

\* A queue of three elements has just been freed and nothing is allocated.
C14_Witness ==
    /\ last.op = "q_free"
    /\ last.count = 3
    /\ qlive = {}
    /\ nlive = {}
    /\ blive = {}

\* C15: q_sort on a NULL, empty or one-element queue, and q_reverse on a
\* NULL or empty queue, change nothing.
C15_NoOps ==
    \A q \in QArgs :
        /\ (q = NULL \/ (q # NULL /\ queue[q].size <= 1)) => q_sort(Cur, q) = Cur
        /\ (q = NULL \/ (q # NULL /\ queue[q].size = 0)) => q_reverse(Cur, q) = Cur

\* q_sort has just been called on a queue of one element.
C15_Witness ==
    /\ last.op = "q_sort"
    /\ last.arg # NULL
    /\ queue[last.arg].size = 1
    /\ queue[last.arg].head = queue[last.arg].tail

\* The heaps one call can produce from the current one, whatever the call
\* and its arguments.
Outcomes ==
    { q_free(Cur, q) : q \in QArgs }
    \cup { q_reverse(Cur, q) : q \in QArgs }
    \cup { q_sort(Cur, q) : q \in QArgs }
    \cup { q_new(Cur, ok).heap : ok \in BOOLEAN }
    \cup { q_insert_head(Cur, q, s, ok1, ok2).heap :
             q \in QArgs, s \in Inputs, ok1 \in BOOLEAN, ok2 \in BOOLEAN }
    \cup { q_insert_tail(Cur, q, s, ok1, ok2).heap :
             q \in QArgs, s \in Inputs, ok1 \in BOOLEAN, ok2 \in BOOLEAN }
    \cup { q_remove_head(Cur, q, spnull, c).heap :
             q \in QArgs, spnull \in BOOLEAN, c \in 1..MaxBuf }

C17_WritesInsideBuffer ==
    \A q \in qlive, c \in 0..MaxBuf :
        queue[q].head # NULL =>
          /\ SizeMinus1(c) < c
          /\ ~q_remove_head(Cur, q, FALSE, c).fault

\* The split merge_sort makes of the chain that starts at first (lines
\* 219-225): the two parts, as sequences of elements.
Split(nxt, first) ==
    LET left == find_half(nxt, first, nxt[first])
        cut == [nxt EXCEPT ![left] = NULL]
    IN [one |-> Walk(cut, first, {}), two |-> Walk(cut, nxt[left], {})]

\* C18: merge_sort splits a chain of n >= 2 elements into a first part of
\* ceil(n/2) and a second part of floor(n/2) elements, both non-empty and
\* shorter than n, so the recursion ends; the merge loop and the walk that
\* moves tail each take at most n steps.
C18_SortTerminates ==
    \A q \in qlive :
        LET c == Chain(Cur, q)
            n == Len(c)
        IN /\ \A i \in 1..n :
                LET k == n + 1 - i
                    s == Split(next, c[i])
                IN k >= 2 =>
                     /\ Len(s.one) = (k + 1) \div 2
                     /\ Len(s.two) = k \div 2
                     /\ Len(s.one) >= 1 /\ Len(s.one) < k
                     /\ Len(s.two) >= 1 /\ Len(s.two) < k
                     /\ Range(s.one) \cap Range(s.two) = {}
           /\ n >= 2 =>
                LET first == queue[q].head
                    left == find_half(next, first, next[first])
                    a == merge_sort(Cur, [next EXCEPT ![left] = NULL], first)
                    b == merge_sort(Cur, a.next, next[left])
                IN merge_loop_steps(Cur, [next |-> b.next, root |-> a.root],
                                    Root, a.root, b.root) <= n
           /\ LET h == q_sort(Cur, q)
              IN /\ tail_fixup_steps(h.next, queue[q].tail) <= n
                 /\ Len(Chain(h, q)) = n
                 /\ ChainEnd(h, q) = NULL

\* A sort has run on a queue of three elements, which splits two and one.
C18_Witness ==
    /\ last.op = "q_sort"
    /\ last.arg # NULL
    /\ queue[last.arg].size = 3
    /\ Len(Split(next, queue[last.arg].head).one) = 2
    /\ Len(Split(next, queue[last.arg].head).two) = 1

\* C19: on every well-formed chain quick_sort(head, tail) ends, changes no
\* next link, neither head nor tail, allocates and frees nothing, and leaves
\* the values, head to tail, as merge_sort leaves them.
C19_QuickSortAgrees ==
    \A q \in qlive :
        LET h == q_sort_else(Cur, q)
            m == q_sort(Cur, q)
            v == ValSeq(h, q)
        IN /\ h.next = next
           /\ h.queue = queue
           /\ h.nlive = nlive /\ h.blive = blive /\ h.mem = mem
           /\ { h.value[n] : n \in nlive } = { value[n] : n \in nlive }
           /\ v = ValSeq(m, q)
           /\ \A i \in 1..(Len(v) - 1) : strcmp(v[i], v[i + 1]) <= 0
           /\ \A x \in Range(v) : Count(v, x) = Count(ValSeq(Cur, q), x)

\* quick_sort has just sorted three different values by moving payloads
\* between elements.
C19_Witness ==
    /\ last.op = "q_sort_else"
    /\ last.arg # NULL
    /\ ValSeq(Cur, last.arg) = << <<1, 0>>, <<1, 2, 0>>, <<2, 0>> >>
    /\ \E n \in nlive : value[n] # n

\* C20: q_sort is not stable.  When the two front elements of a merge hold
\* equal values the one of the second half is emitted, so q_sort exchanges
\* the two elements of every queue of two elements with equal values,
\* although the values are in ascending order already.
C20_SortUnstable ==
    /\ \A l \in nlive, r \in nlive :
         (l # r /\ mem[value[l]] = mem[value[r]]) => ~take_left(Cur, l, r)
    /\ \A q \in qlive :
         LET c == Chain(Cur, q)
             v == ValSeq(Cur, q)
         IN (Len(c) = 2 /\ v[1] = v[2]) =>
              /\ Chain(q_sort(Cur, q), q) = <<c[2], c[1]>>
              /\ Chain(q_sort(Cur, q), q) # c

\* A sort has just run on a queue of two elements that both hold "a".
C20_Witness ==
    /\ last.op = "q_sort"
    /\ last.arg # NULL
    /\ Chain(Cur, last.arg) \in {<<1, 2>>, <<2, 1>>}
    /\ ValSeq(Cur, last.arg) = << <<1, 0>>, <<1, 0>> >>

====
